---- MODULE Spec2Model ----
(***************************************************************************)
(* Model of the TaskGlitch task store: the useTasks hook                   *)
(* (src/hooks/useTasks.ts) as it is driven by the App handlers             *)
(* (src/App.tsx).                                                          *)
(*                                                                         *)
(* One action is one event: the call of one hook operation followed by     *)
(* the re-render React commits before the next event is dispatched, so     *)
(* the value of lastDeleted that the undoDelete callback closed over       *)
(* (renderedLastDeleted) is refreshed at the end of every action.          *)
(*                                                                         *)
(* Optional values (T | null, T | undefined) are sequences of length 0     *)
(* or 1.  A JavaScript number is a record [nan, v] so that NaN and its     *)
(* comparison rules are part of the model.                                 *)
(***************************************************************************)
EXTENDS Integers, Sequences, FiniteSets, TLC

VARIABLES
    tasks,                \* useState<Task[]>            (useTasks.ts:38)
    loading,              \* useState(true)              (useTasks.ts:39)
    error,                \* useState<string | null>     (useTasks.ts:40)
    lastDeleted,          \* useState<Task | null>       (useTasks.ts:41)
    renderedLastDeleted,  \* lastDeleted as captured by undoDelete's closure
    mounted,              \* let mounted = true          (useTasks.ts:45)
    fetchSettled,         \* FALSE while the fetch of loadTasks is pending
    now,                  \* the wall clock read by new Date()
    uuidCount,            \* number of crypto.randomUUID() calls made
    opCount,              \* history: number of store operations performed
    lastOp,               \* history: the last event and what it acted on
    discarded,            \* history: the record a delete overwrote in the undo slot
    activity,             \* useState<ActivityItem[]>([])   (App.tsx:57)
    query,                \* useState('')                   (App.tsx:52)
    statusFilter,         \* useState('All')                (App.tsx:53)
    priorityFilter,       \* useState('All')                (App.tsx:54)
    deferredSlot,         \* setLastDeleted calls of updaters that run at the next render
    dirty                 \* TRUE when an update is queued and not yet rendered

\* The state of AppContent.
appVars == <<activity, query, statusFilter, priorityFilter>>

\* React's update queue between two renders.
queueVars == <<deferredSlot, dirty>>

vars == <<tasks, loading, error, lastDeleted, renderedLastDeleted, mounted,
          fetchSettled, now, uuidCount, opCount, lastOp, discarded,
          activity, query, statusFilter, priorityFilter, deferredSlot, dirty>>

-----------------------------------------------------------------------------
(* Bounds of the model *)

MaxOps == 3
MaxClock == 2

-----------------------------------------------------------------------------
(* Values *)

None == <<>>
Some(x) == <<x>>

Num(n) == [nan |-> FALSE, v |-> n]
NaN == [nan |-> TRUE, v |-> 0]

\* JavaScript's relational operators on numbers: any comparison with NaN is false.
JsGt(x, y) == ~x.nan /\ ~y.nan /\ x.v > y.v
JsLe(x, y) == ~x.nan /\ ~y.nan /\ x.v <= y.v

Range(s) == {s[i] : i \in 1..Len(s)}

\* Object spread { ...t, ...patch }: the fields of patch override those of t.
Spread(t, patch) ==
    [f \in (DOMAIN t) \cup (DOMAIN patch) |->
        IF f \in DOMAIN patch THEN patch[f] ELSE t[f]]

\* crypto.randomUUID(): the n-th identifier generated; never one a caller supplies.
randomUUID(n) == 1000 + n

MkTask(id, title, status, priority, revenue, tt, created, completed) ==
    [id |-> id, title |-> title, status |-> status, priority |-> priority,
     revenue |-> revenue, timeTaken |-> tt, createdAt |-> created,
     completedAt |-> completed]

-----------------------------------------------------------------------------
(* Initial load *)

SeedCount == 50

SeedStatus(i) == IF i % 3 = 0 THEN "Done" ELSE IF i % 3 = 1 THEN "Todo" ELSE "In Progress"
SeedPriority(i) == IF i % 3 = 0 THEN "High" ELSE IF i % 3 = 1 THEN "Medium" ELSE "Low"

\* generateSalesTasks(count): a deterministic dataset of count records.
generateSalesTasks(count) ==
    [i \in 1..count |->
        MkTask(i, "Sales task", SeedStatus(i), SeedPriority(i), 100 * i,
               Num(1 + (i % 4)), 0,
               IF SeedStatus(i) = "Done" THEN Some(0) ELSE None)]

\* A non-empty array served by /tasks.json: its first task was completed once and
\* reopened before it was saved, its second is Done.
FetchedTasks ==
    << MkTask(1, "Alpha", "Todo", "High", 100, Num(2), 0, Some(0)),
       MkTask(2, "Beta", "Done", "Low", 200, Num(4), 0, Some(0)) >>

\* What `data` can be after line 50: res.ok with a parsed body, or [] when !res.ok.
LoadOutcomes == {"array", "emptyArray", "notArray", "notOk"}

\* const data = res.ok ? await res.json() : [];  normalized = Array.isArray(data) ? data : []
normalized(outcome) == IF outcome = "array" THEN FetchedTasks ELSE <<>>

\* Mutant of safeData: the fallback is missing, an empty array is installed.
safeDataNoFallback(outcome) == normalized(outcome)

\* const safeData = normalized.length ? normalized : generateSalesTasks(50)
safeData(outcome) ==
    IF Len(normalized(outcome)) # 0 THEN normalized(outcome)
    ELSE generateSalesTasks(SeedCount)

\* Mutant of loadTasksLoading: the test of mounted is missing.
loadTasksLoadingUnguarded(isMounted, current) == FALSE

\* finally { if (mounted) setLoading(false) }
loadTasksLoading(isMounted, current) == IF isMounted THEN FALSE ELSE current

\* e?.message of what fetch or res.json() threw: present or undefined.
ThrownMessages == {Some("Network down"), None}

\* e?.message ?? 'Failed to load tasks'
errorMessage(msg) == IF msg # None THEN msg[1] ELSE "Failed to load tasks"

-----------------------------------------------------------------------------
(* Store operations, as functions of the previous state *)

First(S) == CHOOSE i \in S : \A j \in S : i <= j

\* prev.find(t => t.id === id) || null
find(prev, id) ==
    LET hits == {i \in 1..Len(prev) : prev[i].id = id}
    IN  IF hits = {} THEN None ELSE Some(prev[First(hits)])

\* task.timeTaken > 0 ? task.timeTaken : 1
addTaskTimeTaken(task) ==
    IF JsGt(task.timeTaken, Num(0)) THEN task.timeTaken ELSE Num(1)

\* task.status === 'Done' ? new Date().toISOString() : undefined
addTaskCompletedAt(task, t2) ==
    IF task.status = "Done" THEN Some(t2) ELSE None

\* The record addTask appends: the payload spread first, then the four fields set.
\* t1 and t2 are the two readings of the clock, n the number of the next UUID.
addTaskRecord(task, t1, t2, n) ==
    Spread(task,
           [id |-> IF "id" \in DOMAIN task THEN task.id ELSE randomUUID(n),
            timeTaken |-> addTaskTimeTaken(task),
            createdAt |-> t1,
            completedAt |-> addTaskCompletedAt(task, t2)])

\* setTasks(prev => [...prev, record])
addTaskTasks(prev, task, t1, t2, n) == Append(prev, addTaskRecord(task, t1, t2, n))

\* if (next.timeTaken <= 0) next.timeTaken = 1
updateTaskCoerce(next) ==
    IF JsLe(next.timeTaken, Num(0)) THEN [next EXCEPT !.timeTaken = Num(1)] ELSE next

\* if (t.status !== 'Done' && next.status === 'Done') next.completedAt = now
updateTaskStamp(t, next, ts) ==
    IF t.status # "Done" /\ next.status = "Done"
    THEN [next EXCEPT !.completedAt = Some(ts)]
    ELSE next

\* The body of the map callback for the record whose id matches.
updateTaskRecord(t, patch, ts) ==
    updateTaskStamp(t, updateTaskCoerce(Spread(t, patch)), ts)

\* Mutant of updateTaskTasks: the test of the id is missing, every record is patched.
updateTaskTasksAll(prev, id, patch, ts) ==
    [i \in 1..Len(prev) |-> updateTaskRecord(prev[i], patch, ts)]

\* setTasks(prev => prev.map(t => t.id !== id ? t : next))
updateTaskTasks(prev, id, patch, ts) ==
    [i \in 1..Len(prev) |->
        IF prev[i].id # id THEN prev[i] ELSE updateTaskRecord(prev[i], patch, ts)]

\* Mutant of deleteTaskTarget: remembers the head of the list, not the match.
deleteTaskTargetHead(prev, id) ==
    IF find(prev, id) = None THEN None ELSE Some(prev[1])

\* const target = prev.find(t => t.id === id) || null; setLastDeleted(target)
deleteTaskTarget(prev, id) == find(prev, id)

\* return prev.filter(t => t.id !== id)
deleteTaskTasks(prev, id) == SelectSeq(prev, LAMBDA t : t.id # id)

\* Mutant of undoDeleteTasks: the record is put back at the front.
undoDeleteTasksFront(prev, captured) ==
    IF captured = None THEN prev ELSE <<captured[1]>> \o prev

\* if (!lastDeleted) return; setTasks(prev => [...prev, lastDeleted])
undoDeleteTasks(prev, captured) ==
    IF captured = None THEN prev ELSE Append(prev, captured[1])

\* Mutant of undoDeleteSlot: the slot is not cleared after the reinsertion.
undoDeleteSlotKept(slot, captured) == slot

\* if (!lastDeleted) return; ... setLastDeleted(null)
undoDeleteSlot(slot, captured) ==
    IF captured = None THEN slot ELSE None

\* Mutant of clearLastDeletedSlot: the dismissal leaves the slot as it was.
clearLastDeletedSlotKept(slot) == slot

\* setLastDeleted(null)
clearLastDeletedSlot(slot) == None

-----------------------------------------------------------------------------
(* Inputs of the operations *)

\* Payloads of addTask: Omit<Task, 'id'> & { id?: string }.
AddPayloads ==
    { [title |-> "Gamma", status |-> "Todo", priority |-> "High",
       revenue |-> 300, timeTaken |-> Num(3), createdAt |-> 0, completedAt |-> None],
      [title |-> "Delta", status |-> "Done", priority |-> "Low",
       revenue |-> 50, timeTaken |-> Num(0), createdAt |-> 0, completedAt |-> None,
       id |-> 1],
      [title |-> "Gamma", status |-> "In Progress", priority |-> "Medium",
       revenue |-> 0, timeTaken |-> NaN, createdAt |-> 0, completedAt |-> Some(0)],
      [title |-> "Alpha", status |-> "Todo", priority |-> "High",
       revenue |-> 100, timeTaken |-> Num(-2), createdAt |-> 0, completedAt |-> Some(0),
       id |-> 1] }

\* Patches of updateTask: Partial<Task>.
Patches ==
    { [status |-> "Done"],
      [status |-> "Todo"],
      [status |-> "In Progress", timeTaken |-> Num(0)],
      [timeTaken |-> NaN],
      [id |-> 2, createdAt |-> 0],
      [completedAt |-> None],
      [completedAt |-> Some(0), title |-> "Renamed"] }

\* Identifiers passed to deleteTask and to updateTask.
DeleteIds == {1, 2, randomUUID(0)}
UpdateIds == {1, randomUUID(0)}

-----------------------------------------------------------------------------
(* The state machine *)

Init ==
    /\ tasks = <<>>
    /\ loading = TRUE
    /\ error = None
    /\ lastDeleted = None
    /\ renderedLastDeleted = None
    /\ mounted = TRUE
    /\ fetchSettled = FALSE
    /\ now = 1
    /\ uuidCount = 0
    /\ opCount = 0
    /\ lastOp = [kind |-> "init"]
    /\ discarded = None
    /\ activity = <<>>
    /\ query = ""
    /\ statusFilter = "All"
    /\ priorityFilter = "All"
    /\ deferredSlot = <<>>
    /\ dirty = FALSE

\* Time passes between two readings of the clock.
Tick ==
    /\ now < MaxClock
    /\ now' = now + 1
    /\ UNCHANGED <<tasks, loading, error, lastDeleted, renderedLastDeleted, mounted,
                   fetchSettled, uuidCount, opCount, lastOp, discarded>>
    /\ UNCHANGED <<appVars, queueVars>>

\* loadTasks, try branch: fetch resolved and the body was read (lines 49-53, 57).
LoadResolve(outcome) ==
    /\ ~fetchSettled
    /\ fetchSettled' = TRUE
    /\ tasks' = IF mounted THEN safeData(outcome) ELSE tasks
    /\ loading' = loadTasksLoading(mounted, loading)
    /\ lastOp' = [kind |-> "load", outcome |-> outcome, applied |-> mounted]
    /\ discarded' = IF mounted THEN None ELSE discarded
    /\ UNCHANGED <<error, lastDeleted, renderedLastDeleted, mounted, now, uuidCount,
                   opCount>>
    /\ UNCHANGED <<appVars, queueVars>>

\* loadTasks, catch branch: fetch rejected or res.json() threw (lines 54-57).
LoadReject(msg) ==
    /\ ~fetchSettled
    /\ fetchSettled' = TRUE
    /\ error' = IF mounted THEN Some(errorMessage(msg)) ELSE error
    /\ loading' = loadTasksLoading(mounted, loading)
    /\ lastOp' = [kind |-> "load", outcome |-> "thrown", applied |-> mounted]
    /\ UNCHANGED <<tasks, lastDeleted, renderedLastDeleted, mounted, now, uuidCount,
                   opCount, discarded>>
    /\ UNCHANGED <<appVars, queueVars>>

\* The effect's cleanup (lines 62-64): the component unmounts.
Unmount ==
    /\ mounted
    /\ mounted' = FALSE
    /\ lastOp' = [kind |-> "unmount"]
    /\ UNCHANGED <<tasks, loading, error, lastDeleted, renderedLastDeleted,
                   fetchSettled, now, uuidCount, opCount, discarded>>
    /\ UNCHANGED <<appVars, queueVars>>

\* A store operation can be issued while the hook is mounted.
CanOperate == mounted /\ opCount < MaxOps

AddTask(task, d) ==
    /\ CanOperate
    /\ now + d <= MaxClock
    /\ d = 1 => task.status = "Done"      \* the second reading happens only for Done
    /\ tasks' = addTaskTasks(tasks, task, now, now + d, uuidCount)
    /\ uuidCount' = IF "id" \in DOMAIN task THEN uuidCount ELSE uuidCount + 1
    /\ now' = now + d
    /\ opCount' = opCount + 1
    /\ lastOp' = [kind |-> "add"]
    /\ discarded' = None
    /\ renderedLastDeleted' = lastDeleted
    /\ UNCHANGED <<loading, error, lastDeleted, mounted, fetchSettled>>
    /\ UNCHANGED <<appVars, queueVars>>

UpdateTask(id, patch) ==
    /\ CanOperate
    /\ tasks' = updateTaskTasks(tasks, id, patch, now)
    /\ opCount' = opCount + 1
    /\ lastOp' = [kind |-> "update", hit |-> find(tasks, id) # None,
                  slotHit |-> lastDeleted # None /\ lastDeleted[1].id = id]
    /\ discarded' = None
    /\ renderedLastDeleted' = lastDeleted
    /\ UNCHANGED <<loading, error, lastDeleted, mounted, fetchSettled, now, uuidCount>>
    /\ UNCHANGED <<appVars, queueVars>>

DeleteTask(id) ==
    /\ CanOperate
    /\ lastDeleted' = deleteTaskTarget(tasks, id)
    /\ tasks' = deleteTaskTasks(tasks, id)
    /\ opCount' = opCount + 1
    /\ lastOp' = [kind |-> "delete", removed |-> find(tasks, id),
                  slotBefore |-> lastDeleted]
    /\ discarded' = IF find(tasks, id) # None /\ find(tasks, id) # lastDeleted
                    THEN lastDeleted ELSE None
    /\ renderedLastDeleted' = lastDeleted'
    /\ UNCHANGED <<loading, error, mounted, fetchSettled, now, uuidCount>>
    /\ UNCHANGED <<appVars, queueVars>>

UndoDelete ==
    /\ CanOperate
    /\ tasks' = undoDeleteTasks(tasks, renderedLastDeleted)
    /\ lastDeleted' = undoDeleteSlot(lastDeleted, renderedLastDeleted)
    /\ opCount' = opCount + 1
    /\ lastOp' = [kind |-> "undo", slotBefore |-> lastDeleted, after |-> lastOp.kind]
    /\ UNCHANGED discarded
    /\ renderedLastDeleted' = lastDeleted'
    /\ UNCHANGED <<loading, error, mounted, fetchSettled, now, uuidCount>>
    /\ UNCHANGED <<appVars, queueVars>>

ClearLastDeleted ==
    /\ CanOperate
    /\ lastDeleted' = clearLastDeletedSlot(lastDeleted)
    /\ opCount' = opCount + 1
    /\ lastOp' = [kind |-> "clear", slotBefore |-> lastDeleted, after |-> lastOp.kind]
    /\ discarded' = None
    /\ renderedLastDeleted' = lastDeleted'
    /\ UNCHANGED <<tasks, loading, error, mounted, fetchSettled, now, uuidCount>>
    /\ UNCHANGED <<appVars, queueVars>>

Next ==
    \/ Tick
    \/ \E outcome \in LoadOutcomes : LoadResolve(outcome)
    \/ \E msg \in ThrownMessages : LoadReject(msg)
    \/ Unmount
    \/ \E task \in AddPayloads, d \in {0, 1} : AddTask(task, d)
    \/ \E id \in UpdateIds, patch \in Patches : UpdateTask(id, patch)
    \/ \E id \in DeleteIds : DeleteTask(id)
    \/ UndoDelete
    \/ ClearLastDeleted

Spec == Init /\ [][Next]_vars

-----------------------------------------------------------------------------
(* AppContent: the handlers, the activity log and what is rendered *)

LogCap == 50

\* JavaScript's ! on a string | null: null and the empty string are falsy.
Falsy(opt) == IF opt = None THEN TRUE ELSE opt[1] = ""

\* createActivity(type, summary): id from crypto.randomUUID(), ts from Date.now().
createActivity(type, summary, n, ts) ==
    [id |-> randomUUID(n), ts |-> ts, type |-> type, summary |-> summary]

\* Mutant of pushActivity: the slice is missing.
pushActivityUncapped(prev, item) == <<item>> \o prev

\* setActivity(prev => [item, ...prev].slice(0, 50))
pushActivity(prev, item) ==
    SubSeq(<<item>> \o prev, 1, IF Len(prev) + 1 < LogCap THEN Len(prev) + 1 ELSE LogCap)

\* Mutant of TaskTableRendered: the test of loading is missing.
TaskTableRenderedWhileLoading == mounted /\ Falsy(error)

\* {!loading && !error && <TaskTable ... onAdd onUpdate onDelete />}
TaskTableRendered == mounted /\ ~loading /\ Falsy(error)

\* <UndoSnackbar open={!!lastDeleted} onUndo={handleUndo} onClose={handleCloseUndo} />
UndoSnackbarOpen == mounted /\ renderedLastDeleted # None

\* Payloads of handleAdd: Omit<Task, 'id'>.
AppPayloads == {task \in AddPayloads : "id" \notin DOMAIN task}

\* Patches and identifiers of the rows edited and deleted in the table.
AppPatches == {[status |-> "Done"], [status |-> "Todo"]}
AppUpdateIds == {1}
AppDeleteIds == {1, 2}

HandleAdd(payload, d) ==
    /\ TaskTableRendered
    /\ now + d <= MaxClock
    /\ d = 1 => payload.status = "Done"
    /\ tasks' = addTaskTasks(tasks, payload, now, now + d, uuidCount)
    /\ activity' = pushActivity(activity,
                      createActivity("add", <<"Added task: ", payload.title>>,
                                     uuidCount + 1, now + d))
    /\ uuidCount' = uuidCount + 2
    /\ now' = now + d
    /\ opCount' = opCount + 1
    /\ lastOp' = [kind |-> "add"]
    /\ discarded' = None
    /\ renderedLastDeleted' = lastDeleted
    /\ UNCHANGED <<loading, error, lastDeleted, mounted, fetchSettled>>
    /\ UNCHANGED <<query, statusFilter, priorityFilter, queueVars>>

HandleUpdate(id, patch) ==
    /\ TaskTableRendered
    /\ tasks' = updateTaskTasks(tasks, id, patch, now)
    /\ activity' = pushActivity(activity,
                      createActivity("update", <<"Updated task: ", id>>, uuidCount, now))
    /\ uuidCount' = uuidCount + 1
    /\ opCount' = opCount + 1
    /\ lastOp' = [kind |-> "update", hit |-> find(tasks, id) # None,
                  slotHit |-> lastDeleted # None /\ lastDeleted[1].id = id]
    /\ discarded' = None
    /\ renderedLastDeleted' = lastDeleted
    /\ UNCHANGED <<loading, error, lastDeleted, mounted, fetchSettled, now>>
    /\ UNCHANGED <<query, statusFilter, priorityFilter, queueVars>>

HandleDelete(id) ==
    /\ TaskTableRendered
    /\ lastDeleted' = deleteTaskTarget(tasks, id)
    /\ tasks' = deleteTaskTasks(tasks, id)
    /\ activity' = pushActivity(activity,
                      createActivity("delete", <<"Deleted task: ", id>>, uuidCount, now))
    /\ uuidCount' = uuidCount + 1
    /\ opCount' = opCount + 1
    /\ lastOp' = [kind |-> "delete", removed |-> find(tasks, id),
                  slotBefore |-> lastDeleted]
    /\ discarded' = IF find(tasks, id) # None /\ find(tasks, id) # lastDeleted
                    THEN lastDeleted ELSE None
    /\ renderedLastDeleted' = lastDeleted'
    /\ UNCHANGED <<loading, error, mounted, fetchSettled, now>>
    /\ UNCHANGED <<query, statusFilter, priorityFilter, queueVars>>

HandleUndo ==
    /\ UndoSnackbarOpen
    /\ tasks' = undoDeleteTasks(tasks, renderedLastDeleted)
    /\ lastDeleted' = undoDeleteSlot(lastDeleted, renderedLastDeleted)
    /\ activity' = pushActivity(activity,
                      createActivity("undo", <<"Undo delete">>, uuidCount, now))
    /\ uuidCount' = uuidCount + 1
    /\ opCount' = opCount + 1
    /\ lastOp' = [kind |-> "undo", slotBefore |-> lastDeleted, after |-> lastOp.kind]
    /\ renderedLastDeleted' = lastDeleted'
    /\ UNCHANGED <<loading, error, mounted, fetchSettled, now, discarded>>
    /\ UNCHANGED <<query, statusFilter, priorityFilter, queueVars>>

HandleCloseUndo ==
    /\ UndoSnackbarOpen
    /\ lastDeleted' = clearLastDeletedSlot(lastDeleted)
    /\ opCount' = opCount + 1
    /\ lastOp' = [kind |-> "clear", slotBefore |-> lastDeleted, after |-> lastOp.kind]
    /\ discarded' = None
    /\ renderedLastDeleted' = lastDeleted'
    /\ UNCHANGED <<tasks, loading, error, mounted, fetchSettled, now, uuidCount>>
    /\ UNCHANGED <<appVars, queueVars>>

\* Bound of the model: the number of events the user chooses freely before
\* settling into one repeated edit.
FreeEvents == 2

\* The user's events: any event for the first FreeEvents events, then the same
\* edit of task 1 until the log is one entry short of LogCap, then any two events.
\* The clock advances and the component unmounts only among the first events.
FreeChoice ==
    \/ opCount < FreeEvents
    \/ opCount >= LogCap - 1 /\ opCount < LogCap + 1

RepeatedEdit == opCount >= FreeEvents /\ opCount < LogCap - 1

AppTick == opCount < FreeEvents /\ Tick

AppUnmount == opCount < FreeEvents /\ Unmount

AppAdd == \E payload \in AppPayloads, d \in {0, 1} : FreeChoice /\ HandleAdd(payload, d)

AppUpdate == \E id \in AppUpdateIds, patch \in AppPatches : FreeChoice /\ HandleUpdate(id, patch)

AppRepeatedUpdate == RepeatedEdit /\ HandleUpdate(1, [status |-> "Todo"])

AppDelete == \E id \in AppDeleteIds : FreeChoice /\ HandleDelete(id)

AppUndo == FreeChoice /\ HandleUndo

AppCloseUndo == FreeChoice /\ HandleCloseUndo

AppNext ==
    \/ AppTick
    \/ \E outcome \in LoadOutcomes : LoadResolve(outcome)
    \/ \E msg \in ThrownMessages : LoadReject(msg)
    \/ AppUnmount
    \/ AppAdd
    \/ AppUpdate
    \/ AppRepeatedUpdate
    \/ AppDelete
    \/ AppUndo
    \/ AppCloseUndo

SpecApp == Init /\ [][AppNext]_vars

-----------------------------------------------------------------------------
(* The derived, sorted and filtered views *)

\* The characters of the strings used as titles and queries.
Chars(str) ==
    CASE str = "" -> <<>>
      [] str = "AL" -> <<"A", "L">>
      [] str = "Alpha" -> <<"A", "l", "p", "h", "a">>
      [] str = "Beta" -> <<"B", "e", "t", "a">>
      [] str = "Gamma" -> <<"G", "a", "m", "m", "a">>
      [] str = "Delta" -> <<"D", "e", "l", "t", "a">>
      [] str = "Renamed" -> <<"R", "e", "n", "a", "m", "e", "d">>
      [] str = "Sales task" -> <<"S", "a", "l", "e", "s", " ", "t", "a", "s", "k">>

\* String.prototype.toLowerCase, character by character.
LowerChar(c) ==
    CASE c = "A" -> "a" [] c = "B" -> "b" [] c = "D" -> "d" [] c = "G" -> "g"
      [] c = "L" -> "l" [] c = "R" -> "r" [] c = "S" -> "s" [] OTHER -> c

toLowerCase(chars) == [i \in 1..Len(chars) |-> LowerChar(chars[i])]

\* String.prototype.includes
includes(hay, needle) ==
    \E start \in 1..(Len(hay) + 1) :
        /\ start + Len(needle) - 1 <= Len(hay)
        /\ SubSeq(hay, start, start + Len(needle) - 1) = needle

\* withDerived: the task with its ROI, revenue over timeTaken, kept as a fraction.
withDerived(t) ==
    Spread(t, [roi |-> [nan |-> t.timeTaken.nan, num |-> t.revenue,
                        den |-> t.timeTaken.v]])

\* The ranking of sortTasks: a has the greater ROI.
RoiGreater(a, b) ==
    /\ ~a.roi.nan
    /\ ~b.roi.nan
    /\ a.roi.num * b.roi.den > b.roi.num * a.roi.den

\* x inserted after every record that does not rank below it.
InsertSorted(sorted, x) ==
    LET before == {i \in 1..Len(sorted) : RoiGreater(x, sorted[i])}
        at == IF before = {} THEN Len(sorted) + 1 ELSE First(before)
    IN  SubSeq(sorted, 1, at - 1) \o <<x>> \o SubSeq(sorted, at, Len(sorted))

\* sortTasks: a stable sort by ROI, greatest first, into a new sequence.
RECURSIVE sortTasks(_)
sortTasks(list) ==
    IF list = <<>> THEN <<>>
    ELSE InsertSorted(sortTasks(SubSeq(list, 1, Len(list) - 1)), list[Len(list)])

\* useMemo(() => sortTasks(tasks.map(withDerived)), [tasks])
derivedSorted == sortTasks([i \in 1..Len(tasks) |-> withDerived(tasks[i])])

\* Mutant of filterKeeps: the title is compared without lowering the case.
filterKeepsCaseSensitive(task, q, sf, pf) ==
    IF q # "" /\ ~includes(Chars(task.title), Chars(q)) THEN FALSE
    ELSE IF sf # "All" /\ task.status # sf THEN FALSE
    ELSE IF pf # "All" /\ task.priority # pf THEN FALSE
    ELSE TRUE

\* The callback of derivedSorted.filter: three tests that return false, else true.
filterKeeps(task, q, sf, pf) ==
    IF q # "" /\ ~includes(toLowerCase(Chars(task.title)), toLowerCase(Chars(q)))
    THEN FALSE
    ELSE IF sf # "All" /\ task.status # sf THEN FALSE
    ELSE IF pf # "All" /\ task.priority # pf THEN FALSE
    ELSE TRUE

\* useMemo(() => derivedSorted.filter(...), [derivedSorted, query, statusFilter, priorityFilter])
filteredTasks ==
    SelectSeq(derivedSorted, LAMBDA t : filterKeeps(t, query, statusFilter, priorityFilter))

\* The values typed or selected in the three filter controls.
Queries == {"", "AL"}
StatusFilters == {"All", "Todo", "Done"}
PriorityFilters == {"All", "High"}

\* The filter controls are rendered under {!loading && !error && ...}.
FiltersRendered == mounted /\ ~loading /\ Falsy(error)

\* onChange={e => setQuery(e.target.value)}
SetQuery(q) ==
    /\ FiltersRendered
    /\ query' = q
    /\ lastOp' = [kind |-> "filter"]
    /\ UNCHANGED <<tasks, loading, error, lastDeleted, renderedLastDeleted, mounted,
                   fetchSettled, now, uuidCount, opCount, discarded>>
    /\ UNCHANGED <<activity, statusFilter, priorityFilter, queueVars>>

\* onChange={e => setStatusFilter(e.target.value)}
SetStatusFilter(f) ==
    /\ FiltersRendered
    /\ statusFilter' = f
    /\ lastOp' = [kind |-> "filter"]
    /\ UNCHANGED <<tasks, loading, error, lastDeleted, renderedLastDeleted, mounted,
                   fetchSettled, now, uuidCount, opCount, discarded>>
    /\ UNCHANGED <<activity, query, priorityFilter, queueVars>>

\* onChange={e => setPriorityFilter(e.target.value)}
SetPriorityFilter(f) ==
    /\ FiltersRendered
    /\ priorityFilter' = f
    /\ lastOp' = [kind |-> "filter"]
    /\ UNCHANGED <<tasks, loading, error, lastDeleted, renderedLastDeleted, mounted,
                   fetchSettled, now, uuidCount, opCount, discarded>>
    /\ UNCHANGED <<activity, query, statusFilter, queueVars>>

\* The events of the filtered table: the array is served, the user edits the
\* table at most MaxOps times and sets the filters in between.
ViewLoad == LoadResolve("array")

ViewAdd == \E payload \in AppPayloads : opCount < MaxOps /\ HandleAdd(payload, 0)

ViewUpdate ==
    \E id \in AppUpdateIds, patch \in AppPatches : opCount < MaxOps /\ HandleUpdate(id, patch)

ViewDelete == \E id \in AppDeleteIds : opCount < MaxOps /\ HandleDelete(id)

ViewUndo == opCount < MaxOps /\ HandleUndo

ViewNext ==
    \/ ViewLoad
    \/ ViewAdd
    \/ ViewUpdate
    \/ ViewDelete
    \/ ViewUndo
    \/ \E q \in Queries : SetQuery(q)
    \/ \E f \in StatusFilters : SetStatusFilter(f)
    \/ \E f \in PriorityFilters : SetPriorityFilter(f)

SpecView == Init /\ [][ViewNext]_vars

-----------------------------------------------------------------------------
(* Several store calls inside one event, before React renders again *)

\* Between two renders tasks and lastDeleted hold the values the queued updates
\* will produce, renderedLastDeleted holds the value the callbacks of the last
\* render closed over, and deferredSlot holds the setLastDeleted calls of the
\* deleteTask updaters that React has not run yet.

CanBatch == CanOperate /\ fetchSettled /\ ~loading

\* The slot once React has run the deferred updaters: their setLastDeleted calls
\* come after the calls made during the event.
renderSlot(slot, deferred) ==
    IF deferred = <<>> THEN slot ELSE deferred[Len(deferred)]

\* deleteTask(id) with no render after it. React runs the updater at once when
\* the fiber has no queued update (eager) and at the next render otherwise; with
\* no update queued either may happen.
BatchDelete(id, eager) ==
    /\ CanBatch
    /\ eager => ~dirty
    /\ tasks' = deleteTaskTasks(tasks, id)
    /\ lastDeleted' = IF eager THEN deleteTaskTarget(tasks, id) ELSE lastDeleted
    /\ deferredSlot' = IF eager THEN deferredSlot
                       ELSE Append(deferredSlot, deleteTaskTarget(tasks, id))
    /\ dirty' = TRUE
    /\ opCount' = opCount + 1
    /\ lastOp' = [kind |-> "delete", removed |-> find(tasks, id),
                  slotBefore |-> lastDeleted]
    /\ UNCHANGED <<renderedLastDeleted, discarded>>
    /\ UNCHANGED <<loading, error, mounted, fetchSettled, now, uuidCount>>
    /\ UNCHANGED appVars

\* undoDelete() with no render after it: the callback reads the lastDeleted of
\* the last render.
BatchUndo ==
    /\ CanBatch
    /\ tasks' = undoDeleteTasks(tasks, renderedLastDeleted)
    /\ lastDeleted' = undoDeleteSlot(lastDeleted, renderedLastDeleted)
    /\ dirty' = (dirty \/ renderedLastDeleted # None)
    /\ opCount' = opCount + 1
    /\ lastOp' = [kind |-> "undo", slotBefore |-> lastDeleted, after |-> lastOp.kind]
    /\ UNCHANGED <<renderedLastDeleted, discarded, deferredSlot>>
    /\ UNCHANGED <<loading, error, mounted, fetchSettled, now, uuidCount>>
    /\ UNCHANGED appVars

\* clearLastDeleted() with no render after it.
BatchClear ==
    /\ CanBatch
    /\ lastDeleted' = clearLastDeletedSlot(lastDeleted)
    /\ opCount' = opCount + 1
    /\ lastOp' = [kind |-> "clear", slotBefore |-> lastDeleted, after |-> lastOp.kind]
    /\ UNCHANGED <<tasks, renderedLastDeleted, discarded, queueVars>>
    /\ UNCHANGED <<loading, error, mounted, fetchSettled, now, uuidCount>>
    /\ UNCHANGED appVars

\* React renders: the queued updates are applied and the callbacks are made
\* again over the new lastDeleted.
Render ==
    /\ mounted
    /\ fetchSettled
    /\ lastDeleted' = renderSlot(lastDeleted, deferredSlot)
    /\ renderedLastDeleted' = lastDeleted'
    /\ deferredSlot' = <<>>
    /\ dirty' = FALSE
    /\ lastOp' = [kind |-> "render"]
    /\ UNCHANGED <<tasks, discarded, opCount>>
    /\ UNCHANGED <<loading, error, mounted, fetchSettled, now, uuidCount>>
    /\ UNCHANGED appVars

BatchNext ==
    \/ LoadResolve("array")
    \/ \E id \in AppDeleteIds, eager \in BOOLEAN : BatchDelete(id, eager)
    \/ BatchUndo
    \/ BatchClear
    \/ Render

SpecBatch == Init /\ [][BatchNext]_vars

-----------------------------------------------------------------------------
(* Vocabulary of the properties *)

\* Number of records of s equal to r in every field.
Occurrences(s, r) == Cardinality({i \in 1..Len(s) : s[i] = r})

\* The step is a call of the named operation.
StepOf(kind) == lastOp'.kind = kind /\ opCount' = opCount + 1

\* A record whose id came from crypto.randomUUID(): only addTask makes those.
HasGeneratedId(t) == t.id >= randomUUID(0)

-----------------------------------------------------------------------------
(* C1 *)

\* C1: when a delete removed a present record and the very next operation is
\* undoDelete, the collection then contains a record equal in every field to the
\* removed one and the undo slot is empty.
C1_DeleteThenUndoRestores ==
    [][ (lastOp.kind = "delete" /\ lastOp.removed # None /\ StepOf("undo"))
        => /\ lastDeleted' = None
           /\ lastOp.removed[1] \in Range(tasks')
           /\ Occurrences(tasks', lastOp.removed[1])
                = Occurrences(tasks, lastOp.removed[1]) + 1 ]_vars

C1_Witness ==
    /\ lastOp.kind = "undo"
    /\ lastOp.after = "delete"
    /\ lastOp.slotBefore # None
    /\ lastDeleted = None
    /\ lastOp.slotBefore[1] \in Range(tasks)

-----------------------------------------------------------------------------
(* C2 *)

\* C2: a completedAt that is set is never changed by an update that takes the
\* task's status into Done again (Done -> Todo -> Done keeps the first timestamp).
C2_CompletedAtSetOnce ==
    [][ StepOf("update")
        => \A i \in 1..Len(tasks) :
              (tasks[i].completedAt # None /\ tasks'[i].status = "Done")
                 => tasks'[i].completedAt = tasks[i].completedAt ]_vars

-----------------------------------------------------------------------------
(* C3 *)

\* C3: deleteTask of an id that is not in the collection changes neither the
\* collection nor the undo slot.
C3_DeleteAbsentIsNoOp ==
    [][ (StepOf("delete") /\ lastOp'.removed = None)
        => (tasks' = tasks /\ lastDeleted' = lastDeleted) ]_vars

-----------------------------------------------------------------------------
(* C4 *)

\* C4: no two records of the live collection share an id.
C4_UniqueIds ==
    \A i, j \in 1..Len(tasks) : i # j => tasks[i].id # tasks[j].id

-----------------------------------------------------------------------------
(* C5 *)

\* C5: every record of the collection has timeTaken > 0.
C5_TimeTakenPositive ==
    \A i \in 1..Len(tasks) : JsGt(tasks[i].timeTaken, Num(0))

-----------------------------------------------------------------------------
(* C6 *)

\* C6: when a delete of a present task B overwrites a record A held in the undo
\* slot, the slot holds B and not A; the undoDelete that follows reinserts B once
\* and no undoDelete after that delete ever reinserts A or puts it back in the slot.
C6_SecondDeleteDiscardsFirst ==
    [][ /\ (StepOf("delete") /\ discarded' # None)
            => (lastDeleted' = lastOp'.removed /\ lastDeleted' # discarded')
        /\ (StepOf("undo") /\ discarded # None)
            => /\ Occurrences(tasks', discarded[1]) = Occurrences(tasks, discarded[1])
               /\ lastDeleted' = None
        /\ (StepOf("undo") /\ discarded # None /\ lastOp.kind = "delete")
            => /\ Len(tasks') = Len(tasks) + 1
               /\ tasks'[Len(tasks')] = lastOp.removed[1] ]_vars

C6_Witness ==
    /\ lastOp.kind = "undo"
    /\ lastOp.after = "delete"
    /\ discarded # None
    /\ lastOp.slotBefore # None
    /\ lastOp.slotBefore[1] \in Range(tasks)
    /\ discarded[1] \notin Range(tasks)
    /\ lastDeleted = None

-----------------------------------------------------------------------------
(* C7 *)

\* C7: once the load has completed on a mounted component, in any outcome, the
\* collection is non-empty, and a thrown failure has also set the error string.
C7_LoadAlwaysPopulates ==
    (lastOp.kind = "load" /\ lastOp.applied)
        => /\ Len(tasks) > 0
           /\ lastOp.outcome = "thrown" => error # None

-----------------------------------------------------------------------------
(* C8 *)

\* C8: clearLastDeleted empties the undo slot and leaves the collection unchanged,
\* and an undoDelete issued right after it changes neither.
C8_ClearDoesNotResurrect ==
    [][ /\ StepOf("clear") => (lastDeleted' = None /\ tasks' = tasks)
        /\ (StepOf("undo") /\ lastOp.kind = "clear")
              => (tasks' = tasks /\ lastDeleted' = None) ]_vars

C8_Witness ==
    /\ lastOp.kind = "clear"
    /\ lastOp.after = "delete"
    /\ lastOp.slotBefore # None
    /\ lastDeleted = None
    /\ lastOp.slotBefore[1] \notin Range(tasks)

-----------------------------------------------------------------------------
(* C9 *)

\* C9: updateTask never changes the id or the createdAt of a record.
C9_UpdateKeepsIdAndCreatedAt ==
    [][ StepOf("update")
        => \A i \in 1..Len(tasks) :
              /\ tasks'[i].id = tasks[i].id
              /\ tasks'[i].createdAt = tasks[i].createdAt ]_vars

-----------------------------------------------------------------------------
(* C10 *)

\* C10: addTask stamps completedAt iff the initial status is Done, and an update
\* of a task created by add makes completedAt present only together with a
\* transition into Done and never removes it once present.
C10_CompletedAtIffEverDone ==
    [][ /\ StepOf("add")
            => (tasks'[Len(tasks')].completedAt # None
                  <=> tasks'[Len(tasks')].status = "Done")
        /\ StepOf("update")
            => \A i \in 1..Len(tasks) :
                 HasGeneratedId(tasks[i])
                   => /\ (tasks[i].completedAt = None /\ tasks'[i].completedAt # None)
                           => (tasks[i].status # "Done" /\ tasks'[i].status = "Done")
                      /\ tasks[i].completedAt # None
                           => tasks'[i].completedAt # None ]_vars

-----------------------------------------------------------------------------
(* C11 *)

\* C11: updateTask of an id that is not in the collection leaves every record,
\* their order and the undo slot as they were, also when the slot holds a record
\* with that id.
C11_UpdateAbsentIsNoOp ==
    [][ (StepOf("update") /\ ~lastOp'.hit)
        => (tasks' = tasks /\ lastDeleted' = lastDeleted) ]_vars

C11_Witness ==
    /\ lastOp.kind = "update"
    /\ ~lastOp.hit
    /\ lastOp.slotHit
    /\ lastDeleted # None
    /\ Len(tasks) > 0

-----------------------------------------------------------------------------
(* C12 *)

\* C12: after a load that did not throw, the collection is the fetched array,
\* unchanged and in the order received, when that array is non-empty, and the
\* generated dataset of 50 tasks when the response is not ok, not an array or empty.
C12_LoadInstallsOrFallsBack ==
    (lastOp.kind = "load" /\ lastOp.applied /\ lastOp.outcome # "thrown")
        => IF lastOp.outcome = "array"
           THEN tasks = FetchedTasks
           ELSE tasks = generateSalesTasks(SeedCount) /\ Len(tasks) = SeedCount

C12_Witness ==
    /\ lastOp.kind = "load"
    /\ lastOp.applied
    /\ lastOp.outcome = "emptyArray"
    /\ Len(tasks) = SeedCount

-----------------------------------------------------------------------------
(* C16 *)

\* C16: undoDelete with a record in the slot puts it at the end of the collection
\* and leaves the other records and their order alone; with an empty slot it
\* changes neither the collection nor the slot.
C16_UndoAppendsAtEnd ==
    [][ StepOf("undo")
        => IF lastDeleted # None
           THEN /\ Len(tasks') = Len(tasks) + 1
                /\ tasks'[Len(tasks')] = lastDeleted[1]
                /\ \A i \in 1..Len(tasks) : tasks'[i] = tasks[i]
           ELSE tasks' = tasks /\ lastDeleted' = lastDeleted ]_vars

\* Task 1 was first in the collection and is last after the undo.
C16_Witness ==
    /\ lastOp.kind = "undo"
    /\ lastOp.slotBefore # None
    /\ lastOp.slotBefore[1].id = 1
    /\ Len(tasks) >= 2
    /\ tasks[1].id = 2
    /\ tasks[Len(tasks)] = lastOp.slotBefore[1]

-----------------------------------------------------------------------------
(* C17 *)

\* C17: the slot becomes occupied, or changes the record it holds, only by a
\* delete of a present id; it becomes empty only by undoDelete or clearLastDeleted;
\* add and update never change it.
C17_SlotLifecycle ==
    [][ /\ (lastDeleted' # None /\ lastDeleted' # lastDeleted)
            => (StepOf("delete") /\ lastOp'.removed # None)
        /\ (lastDeleted # None /\ lastDeleted' = None)
            => (StepOf("undo") \/ StepOf("clear"))
        /\ (StepOf("add") \/ StepOf("update"))
            => lastDeleted' = lastDeleted ]_vars

-----------------------------------------------------------------------------
(* C19 *)

\* C19: whenever the undo slot holds a record, no record of the live collection
\* has that record's id.
C19_SlotIdNotLive ==
    lastDeleted # None
        => \A i \in 1..Len(tasks) : tasks[i].id # lastDeleted[1].id

-----------------------------------------------------------------------------
(* C20 *)

\* C20: the load settles at most once; settling on a mounted component makes
\* loading false, and loading never returns to true; settling after the unmount
\* changes none of tasks, error and loading.
C20_LoadSettlesOnce ==
    [][ /\ fetchSettled => fetchSettled'
        /\ lastOp'.kind = "load" /\ lastOp' # lastOp => ~fetchSettled
        /\ (~fetchSettled /\ fetchSettled' /\ mounted) => ~loading'
        /\ ~loading => ~loading'
        /\ (~fetchSettled /\ fetchSettled' /\ ~mounted)
              => (tasks' = tasks /\ error' = error /\ loading' = loading) ]_vars

C20_Witness ==
    /\ fetchSettled
    /\ ~mounted
    /\ lastOp.kind = "load"
    /\ ~lastOp.applied
    /\ loading
    /\ error = None

-----------------------------------------------------------------------------
(* C13 *)

LoggedKinds == {"add", "update", "delete", "undo"}

\* C13: every add, update, delete and undo issued through a handler puts one new
\* entry of its kind at the front of the activity log, the entries already there
\* keep their order (the last one is dropped when the log is full), and the log
\* never holds more than 50 entries.
C13_ActivityLog ==
    [][ /\ Len(activity') <= LogCap
        /\ \A kind \in LoggedKinds :
              StepOf(kind)
                => /\ Len(activity') = (IF Len(activity) < LogCap
                                        THEN Len(activity) + 1 ELSE LogCap)
                   /\ activity'[1].type = kind
                   /\ activity'[1] \notin Range(activity)
                   /\ \A i \in 2..Len(activity') : activity'[i] = activity[i - 1] ]_vars

\* A delete of a present task was logged on a full log: the entries of the first
\* event are gone.
C13_Witness ==
    /\ Len(activity) = LogCap
    /\ lastOp.kind = "delete"
    /\ lastOp.removed # None
    /\ activity[1].type = "delete"
    /\ \A i \in 1..Len(activity) : activity[i].id \notin {randomUUID(0), randomUUID(1)}

-----------------------------------------------------------------------------
(* C18 *)

\* C18: while the initial load is pending no mutation has been issued through the
\* handlers, so the collection the hydration replaces is the empty initial one
\* and the state right after the load carries no user mutation.
C18_NoMutationWhileLoading ==
    /\ loading => (opCount = 0 /\ tasks = <<>> /\ lastDeleted = None /\ activity = <<>>)
    /\ lastOp.kind = "load" => opCount = 0

\* A task added through the table after the hydration, which is kept.
C18_Witness ==
    /\ fetchSettled
    /\ ~loading
    /\ lastOp.kind = "add"
    /\ Len(tasks) = Len(FetchedTasks) + 1
    /\ SubSeq(tasks, 1, Len(FetchedTasks)) = FetchedTasks

-----------------------------------------------------------------------------
(* C14 *)

\* The title of t contains the query, whatever the case of either.
TitleContains(t, q) ==
    LET title == toLowerCase(Chars(t.title))
        needle == toLowerCase(Chars(q))
    IN  \E offset \in 0..Len(title) :
            /\ offset + Len(needle) <= Len(title)
            /\ \A k \in 1..Len(needle) : title[offset + k] = needle[k]

\* t passes the three filters at once.
PassesAllFilters(t) ==
    /\ query = "" \/ TitleContains(t, query)
    /\ statusFilter = "All" \/ t.status = statusFilter
    /\ priorityFilter = "All" \/ t.priority = priorityFilter

\* a can be obtained from b by dropping elements.
RECURSIVE IsSubsequence(_, _)
IsSubsequence(a, b) ==
    IF a = <<>> THEN TRUE
    ELSE IF b = <<>> THEN FALSE
    ELSE IF Head(a) = Head(b) THEN IsSubsequence(Tail(a), Tail(b))
    ELSE IsSubsequence(a, Tail(b))

ViewIsExact ==
    /\ \A i \in 1..Len(filteredTasks) : PassesAllFilters(filteredTasks[i])
    /\ \A i \in 1..Len(derivedSorted) :
          PassesAllFilters(derivedSorted[i])
            => Occurrences(filteredTasks, derivedSorted[i])
                 = Occurrences(derivedSorted, derivedSorted[i])
    /\ IsSubsequence(filteredTasks, derivedSorted)

\* C14: the filtered view holds exactly the tasks of the sorted list that pass the
\* three filters at once, in the order of the sorted list, and a change of a
\* filter changes neither the collection nor the undo slot.
C14_FilteredView ==
    /\ []ViewIsExact
    /\ [][lastOp'.kind = "filter" => (tasks' = tasks /\ lastDeleted' = lastDeleted)]_vars

\* Status Done and priority High at once, with a query in another case: task 1
\* passes, the other tasks do not.
C14_Witness ==
    /\ statusFilter = "Done"
    /\ priorityFilter = "High"
    /\ query = "AL"
    /\ Len(derivedSorted) >= 2
    /\ Len(filteredTasks) = 1
    /\ filteredTasks[1].id = 1
    /\ lastOp.kind = "filter"

-----------------------------------------------------------------------------
(* C15 *)

\* C15: store calls are atomic with respect to each other although React queues
\* the updates: an undo never reinserts a record that is already back in the
\* collection, also when it is called twice before the next render, and an undo
\* called right after a delete, before the render, reinserts the record of that
\* delete.
C15_BatchedCallsAtomic ==
    [][ StepOf("undo")
          => /\ \A t \in Range(tasks') :
                   Occurrences(tasks', t) > Occurrences(tasks, t)
                     => Occurrences(tasks, t) = 0
             /\ (lastOp.kind = "delete" /\ lastOp.removed # None)
                   => tasks' = Append(tasks, lastOp.removed[1]) ]_vars

====
